---------------------------- MODULE Spec2Model ----------------------------
(***************************************************************************)
(* A model of src/models/model.rs of kirushyk/sim: the Model wrapper (an   *)
(* id plus one boxed AsModel value), its derived Clone, its AsModel        *)
(* delegation, and its tagged serde codec.                                 *)
(*                                                                         *)
(* The heap is explicit: a Box<dyn AsModel> is an address, so that sharing *)
(* between a Model and its clone is something the check can refute.        *)
(* A mapping (serde_yaml::Mapping, or the map a Serializer is fed) is a    *)
(* sequence of <<key, value>> entries.  Scalars are tokens: the tokens of  *)
(* Nums stand for YAML numbers, every other token is a YAML string.        *)
(***************************************************************************)
EXTENDS Integers, Sequences, FiniteSets, TLC

(* ----------------------------- bounds --------------------------------- *)

\* number of Model values the owner (the scheduler) holds at once
MaxModels == 2
\* number of boxes the heap can hold
MaxBoxes == 2
\* largest until_next_event horizon and time delta
MaxTime == 1

Slots == 1..MaxModels
Addrs == 1..MaxBoxes
Times == 0..MaxTime

(* ------------------------- values and inputs -------------------------- *)

Ids == {"m1", "m2"}
Nums == {"1", "2"}
Msgs == {"job", "poison"}
\* the draws of the random-number source: the low and the high one
Rngs == {0, 1}

\* serde_yaml::Value, as far as the codec distinguishes it: Null or Mapping
Null == [map |-> FALSE, entries |-> <<>>]
Mapping(es) == [map |-> TRUE, entries |-> es]

\* the entry <<key, value>> of a mapping
Key(e) == e[1]
Val(e) == e[2]

RECURSIVE HasKey(_, _)
HasKey(es, k) ==
  IF es = <<>> THEN FALSE
  ELSE IF Key(Head(es)) = k THEN TRUE ELSE HasKey(Tail(es), k)

RECURSIVE CountKey(_, _)
CountKey(es, k) ==
  IF es = <<>> THEN 0
  ELSE (IF Key(Head(es)) = k THEN 1 ELSE 0) + CountKey(Tail(es), k)

\* the value of the first entry keyed k (only used when HasKey(es, k))
RECURSIVE Lookup(_, _)
Lookup(es, k) ==
  IF Key(Head(es)) = k THEN Val(Head(es)) ELSE Lookup(Tail(es), k)

\* the entries whose key is not in ks, in their order
RECURSIVE Without(_, _)
Without(es, ks) ==
  IF es = <<>> THEN <<>>
  ELSE IF Key(Head(es)) \in ks THEN Without(Tail(es), ks)
       ELSE <<Head(es)>> \o Without(Tail(es), ks)

(* --------------------- the concrete variants (external) --------------- *)

\* the fields each concrete variant's struct declares, in declaration order
Schema(tag) ==
  CASE tag = "Generator"        -> <<"a">>
    [] tag = "ExclusiveGateway" -> <<"a", "b">>
    [] tag = "Processor"        -> <<"b">>
    [] tag = "Storage"          -> <<>>
    [] OTHER                    -> <<>>

\* a heap cell: a free box, a boxed concrete variant, a boxed custom
\* implementation of AsModel (kind "Custom"), or a boxed Model (kind "Model")
FreeCell == [kind |-> "Free", typ |-> "", ser |-> Null, tn |-> 0,
             id |-> "", inner |-> 0]

VariantCell(kind, typ, ser, tn) ==
  [kind |-> kind, typ |-> typ, ser |-> ser, tn |-> tn, id |-> "", inner |-> 0]

\* serde_yaml::from_value::<T>(extra) for the variant T named tag: every
\* declared field must be present in extra and hold a number
RECURSIVE FieldsFrom(_, _)
FieldsFrom(schema, extra) ==
  IF schema = <<>> THEN [ok |-> TRUE, entries |-> <<>>]
  ELSE IF ~HasKey(extra, Head(schema)) THEN [ok |-> FALSE, entries |-> <<>>]
  ELSE IF Lookup(extra, Head(schema)) \notin Nums
       THEN [ok |-> FALSE, entries |-> <<>>]
  ELSE LET rest == FieldsFrom(Tail(schema), extra)
       IN  IF ~rest.ok THEN rest
           ELSE [ok |-> TRUE,
                 entries |-> <<<<Head(schema), Lookup(extra, Head(schema))>>>>
                             \o rest.entries]

from_value(tag, extra) ==
  LET f == FieldsFrom(Schema(tag), extra)
  IN  IF f.ok
      THEN [ok |-> TRUE, value |-> VariantCell(tag, tag, Mapping(f.entries), 0)]
      ELSE [ok |-> FALSE, value |-> FreeCell]

(* ------------------------------ the heap ------------------------------ *)

IsFree(h, a) == h[a].kind = "Free"
FreeCount(h) == Cardinality({a \in Addrs : IsFree(h, a)})

\* Box::new(value): the value moves into the lowest free box.  With no box
\* left it yields address 0; the actions never take that step.
Box_new(h, cell) ==
  IF \A a \in Addrs : ~IsFree(h, a) THEN [heap |-> h, addr |-> 0]
  ELSE LET a == CHOOSE x \in Addrs :
                  IsFree(h, x) /\ \A y \in Addrs : IsFree(h, y) => x <= y
       IN  [heap |-> [h EXCEPT ![a] = cell], addr |-> a]

(* ------------------------------ Model --------------------------------- *)

NoModel == [live |-> FALSE, id |-> "", inner |-> 0]

\* mutant: the id given is not stored
Model_new_noId(id, inner) == [live |-> TRUE, id |-> "", inner |-> inner]

\* Model::new
Model_new(id, inner) == [live |-> TRUE, id |-> id, inner |-> inner]

\* Model::id
Model_id(m) == m.id

\* a Model that is itself the boxed inner value of another Model
ModelCell(m) == [kind |-> "Model", typ |-> "", ser |-> Null, tn |-> 0,
                 id |-> m.id, inner |-> m.inner]
AsModelOf(cell) == [live |-> TRUE, id |-> cell.id, inner |-> cell.inner]

\* the boxes a Model owns: its inner box and, when that holds a Model, the
\* boxes of that Model
RECURSIVE Owned(_, _)
Owned(h, m) ==
  IF m.inner = 0 THEN {}
  ELSE {m.inner} \cup (IF h[m.inner].kind = "Model"
                       THEN Owned(h, AsModelOf(h[m.inner])) ELSE {})

\* dropping a Model frees every box it owns
Model_drop(h, m) ==
  [a \in Addrs |-> IF a \in Owned(h, m) THEN FreeCell ELSE h[a]]

(* ------------------- AsModel: defaults and variants ------------------- *)

\* the provided methods of trait AsModel
AsModel_get_type_default == ""
AsModel_serialize_default == Null

\* results of events_ext / events_int
Ok(ms) == [ok |-> TRUE, msgs |-> ms]
SimulationError == [ok |-> FALSE, msgs |-> <<>>]

\* a minimal implementation of the required methods, the same for every
\* boxed value that is not a Model
Variant_status(c) == <<c.kind, c.tn>>
Variant_until_next_event(c) == c.tn
Variant_time_advance(c, delta) ==
  [c EXCEPT !.tn = IF c.tn > delta THEN c.tn - delta ELSE 0]
Variant_events_ext(c, rng, msg) ==
  IF msg = "poison"
  THEN [cell |-> c, rng |-> rng, ret |-> SimulationError]
  ELSE [cell |-> [c EXCEPT !.tn = rng * MaxTime], rng |-> 1 - rng,
        ret |-> Ok(<<msg>>)]
Variant_events_int(c, rng) ==
  IF c.tn # 0
  THEN [cell |-> c, rng |-> rng, ret |-> SimulationError]
  ELSE [cell |-> [c EXCEPT !.tn = rng * MaxTime], rng |-> 1 - rng,
        ret |-> Ok(<<"out">>)]

\* one recorded call on self.inner: method, receiver, arguments, result
Call(method, a, args, ret) ==
  [method |-> method, on |-> a, args |-> args, ret |-> ret]

(* ------------- impl AsModel for Model, and dynamic dispatch ----------- *)

RECURSIVE Dyn_status(_, _)
RECURSIVE Dyn_until_next_event(_, _)
RECURSIVE Dyn_time_advance(_, _, _)
RECURSIVE Dyn_events_ext(_, _, _, _)
RECURSIVE Dyn_events_int(_, _, _)

\* each yields the heap and rng after the call, the value returned, and the
\* calls the body made on self.inner

Model_status(h, m) ==
  LET r == Dyn_status(h, m.inner)
  IN  [heap |-> h, ret |-> r,
       calls |-> <<Call("status", m.inner, <<>>, r)>>]

Model_until_next_event(h, m) ==
  LET r == Dyn_until_next_event(h, m.inner)
  IN  [heap |-> h, ret |-> r,
       calls |-> <<Call("until_next_event", m.inner, <<>>, r)>>]

Model_time_advance(h, m, time_delta) ==
  LET r == Dyn_time_advance(h, m.inner, time_delta)
  IN  [heap |-> r, ret |-> <<>>,
       calls |-> <<Call("time_advance", m.inner, <<time_delta>>, <<>>)>>]

\* mutant: a SimulationError of the inner value is turned into an empty Ok
Model_events_ext_recover(h, m, uniform_rng, incoming_message) ==
  LET r == Dyn_events_ext(h, m.inner, uniform_rng, incoming_message)
  IN  [heap |-> r.heap, rng |-> r.rng,
       ret |-> IF r.ret.ok THEN r.ret ELSE Ok(<<>>),
       calls |-> <<Call("events_ext", m.inner,
                        <<uniform_rng, incoming_message>>, r.ret)>>]

Model_events_ext(h, m, uniform_rng, incoming_message) ==
  LET r == Dyn_events_ext(h, m.inner, uniform_rng, incoming_message)
  IN  [heap |-> r.heap, rng |-> r.rng, ret |-> r.ret,
       calls |-> <<Call("events_ext", m.inner,
                        <<uniform_rng, incoming_message>>, r.ret)>>]

Model_events_int(h, m, uniform_rng) ==
  LET r == Dyn_events_int(h, m.inner, uniform_rng)
  IN  [heap |-> r.heap, rng |-> r.rng, ret |-> r.ret,
       calls |-> <<Call("events_int", m.inner, <<uniform_rng>>, r.ret)>>]

\* a call through Box<dyn AsModel>: the boxed value's own implementation
Dyn_status(h, a) ==
  IF h[a].kind = "Model" THEN Model_status(h, AsModelOf(h[a])).ret
  ELSE Variant_status(h[a])

Dyn_until_next_event(h, a) ==
  IF h[a].kind = "Model" THEN Model_until_next_event(h, AsModelOf(h[a])).ret
  ELSE Variant_until_next_event(h[a])

Dyn_time_advance(h, a, delta) ==
  IF h[a].kind = "Model" THEN Model_time_advance(h, AsModelOf(h[a]), delta).heap
  ELSE [h EXCEPT ![a] = Variant_time_advance(h[a], delta)]

Dyn_events_ext(h, a, rng, msg) ==
  IF h[a].kind = "Model"
  THEN LET r == Model_events_ext(h, AsModelOf(h[a]), rng, msg)
       IN  [heap |-> r.heap, rng |-> r.rng, ret |-> r.ret]
  ELSE LET r == Variant_events_ext(h[a], rng, msg)
       IN  [heap |-> [h EXCEPT ![a] = r.cell], rng |-> r.rng, ret |-> r.ret]

Dyn_events_int(h, a, rng) ==
  IF h[a].kind = "Model"
  THEN LET r == Model_events_int(h, AsModelOf(h[a]), rng)
       IN  [heap |-> r.heap, rng |-> r.rng, ret |-> r.ret]
  ELSE LET r == Variant_events_int(h[a], rng)
       IN  [heap |-> [h EXCEPT ![a] = r.cell], rng |-> r.rng, ret |-> r.ret]

RECURSIVE Dyn_get_type(_, _)

\* mutant: get_type is forwarded to the inner value like the other methods
Model_get_type_forward(h, m) == Dyn_get_type(h, m.inner)

\* impl AsModel for Model overrides neither get_type nor serialize: called
\* on a Model through the trait, both are the trait's provided methods
Model_get_type(h, m) == AsModel_get_type_default

Model_as_serialize(h, m) == AsModel_serialize_default

Dyn_get_type(h, a) ==
  IF h[a].kind = "Model" THEN Model_get_type(h, AsModelOf(h[a])) ELSE h[a].typ

Dyn_serialize(h, a) ==
  IF h[a].kind = "Model" THEN Model_as_serialize(h, AsModelOf(h[a]))
  ELSE h[a].ser

(* ------------------------------- Clone -------------------------------- *)

RECURSIVE clone_box(_, _)

\* impl Clone for Box<dyn AsModel>
Box_clone(h, a) == clone_box(h, a)

\* #[derive(Clone)] on Model: id.clone() and inner.clone()
Model_clone(h, m) ==
  LET b == Box_clone(h, m.inner)
  IN  [heap |-> b.heap, model |-> [live |-> TRUE, id |-> m.id, inner |-> b.addr]]

\* mutant: the copy shares the original's box
clone_box_shared(h, a) == [heap |-> h, addr |-> a]

\* ModelClone::clone_box: Box::new(self.clone()), where self.clone() is the
\* boxed value's own Clone (for a boxed Model, the derived one above)
clone_box(h, a) ==
  IF h[a].kind = "Model"
  THEN LET c == Model_clone(h, AsModelOf(h[a]))
       IN  Box_new(c.heap, ModelCell(c.model))
  ELSE Box_new(h, h[a])

(* ------------------------------- codec -------------------------------- *)

\* D::Error, as far as the codec distinguishes it
NoError == [kind |-> "none", tag |-> "", expected |-> <<>>]
DecodeError == [kind |-> "decode", tag |-> "", expected |-> <<>>]
unknown_variant(other, expected) ==
  [kind |-> "unknown_variant", tag |-> other, expected |-> expected]

\* ModelRepr::deserialize: id and type are required strings, each given
\* once; every other entry is collected, in order, into extra
ModelRepr_deserialize(doc) ==
  IF \/ CountKey(doc, "id") # 1
     \/ CountKey(doc, "type") # 1
  THEN [ok |-> FALSE, id |-> "", model_type |-> "", extra |-> <<>>]
  ELSE IF Lookup(doc, "id") \in Nums \/ Lookup(doc, "type") \in Nums
  THEN [ok |-> FALSE, id |-> "", model_type |-> "", extra |-> <<>>]
  ELSE [ok |-> TRUE, id |-> Lookup(doc, "id"),
        model_type |-> Lookup(doc, "type"),
        extra |-> Without(doc, {"id", "type"})]

\* the for loop of Model::serialize: one serialize_entry per entry of map
RECURSIVE serialize_entries(_, _)
serialize_entries(model, map) ==
  IF map = <<>> THEN model
  ELSE serialize_entries(Append(model, <<Key(Head(map)), Val(Head(map))>>),
                         Tail(map))

\* mutant: the loop over the extra fields is forgotten
Model_serialize_noExtra(h, m) ==
  <<<<"id", m.id>>, <<"type", Dyn_get_type(h, m.inner)>>>>

\* mutant: type is emitted before id
Model_serialize_typeFirst(h, m) ==
  LET extra_fields == Dyn_serialize(h, m.inner)
      model2 == <<<<"type", Dyn_get_type(h, m.inner)>>, <<"id", m.id>>>>
  IN  IF extra_fields.map
      THEN serialize_entries(model2, extra_fields.entries)
      ELSE model2

\* mutant: extra fields named id or type are skipped
Model_serialize_guarded(h, m) ==
  LET extra_fields == Dyn_serialize(h, m.inner)
      model2 == <<<<"id", m.id>>, <<"type", Dyn_get_type(h, m.inner)>>>>
  IN  IF extra_fields.map
      THEN serialize_entries(model2,
                             Without(extra_fields.entries, {"id", "type"}))
      ELSE model2

\* impl Serialize for Model: the entries handed to the serializer, in order
Model_serialize(h, m) ==
  LET extra_fields == Dyn_serialize(h, m.inner)
      model0 == <<>>
      model1 == Append(model0, <<"id", m.id>>)
      model2 == Append(model1, <<"type", Dyn_get_type(h, m.inner)>>)
  IN  IF extra_fields.map
      THEN serialize_entries(model2, extra_fields.entries)
      ELSE model2

\* mutant: the list is declared in another order
VARIANTS_reordered == <<"ExclusiveGateway", "Generator", "Processor", "Storage">>

\* mutant: a tag with a match arm is missing from the list
VARIANTS_short == <<"Generator", "ExclusiveGateway", "Processor">>

\* const VARIANTS
VARIANTS == <<"Generator", "ExclusiveGateway", "Processor", "Storage">>

\* the result of Model::deserialize: Ok(model) with the heap holding its box,
\* or Err(err); arm names the match arm taken ("none": ModelRepr failed)
DeFail(h, err, arm) ==
  [ok |-> FALSE, heap |-> h, model |-> NoModel, err |-> err, arm |-> arm]

\* mutant: a variant that fails to decode is reported as an unknown variant
DeArm_fallthrough(h, repr, tag) ==
  LET v == from_value(tag, repr.extra)
  IN  IF ~v.ok THEN DeFail(h, unknown_variant(tag, VARIANTS), "other")
      ELSE LET b == Box_new(h, v.value)
           IN  [ok |-> TRUE, heap |-> b.heap,
                model |-> Model_new(repr.id, b.addr),
                err |-> NoError, arm |-> tag]

\* one known-tag arm: from_value::<T>(extra).map_err(custom)?, then
\* Ok(Model::new(id, Box::new(value)))
DeArm(h, repr, tag) ==
  LET v == from_value(tag, repr.extra)
  IN  IF ~v.ok THEN DeFail(h, DecodeError, tag)
      ELSE LET b == Box_new(h, v.value)
           IN  [ok |-> TRUE, heap |-> b.heap,
                model |-> Model_new(repr.id, b.addr),
                err |-> NoError, arm |-> tag]

\* impl Deserialize for Model
Model_deserialize(h, doc) ==
  LET model_repr == ModelRepr_deserialize(doc)
  IN  IF ~model_repr.ok THEN DeFail(h, DecodeError, "none")
      ELSE CASE model_repr.model_type = "Generator" ->
                  DeArm(h, model_repr, "Generator")
             [] model_repr.model_type = "ExclusiveGateway" ->
                  DeArm(h, model_repr, "ExclusiveGateway")
             [] model_repr.model_type = "Processor" ->
                  DeArm(h, model_repr, "Processor")
             [] model_repr.model_type = "Storage" ->
                  DeArm(h, model_repr, "Storage")
             [] OTHER ->
                  DeFail(h, unknown_variant(model_repr.model_type, VARIANTS),
                         "other")

(* ------------------------------ inputs -------------------------------- *)

\* concrete variants the owner constructs directly
VariantInstances ==
  {VariantCell("Generator", "Generator", Mapping(<<<<"a", v>>>>), 0) :
     v \in Nums}
  \cup {VariantCell("ExclusiveGateway", "ExclusiveGateway",
                    Mapping(<<<<"a", "1">>, <<"b", v>>>>), 0) : v \in Nums}
  \cup {VariantCell("Processor", "Processor", Mapping(<<<<"b", "2">>>>), 0),
        VariantCell("Storage", "Storage", Mapping(<<>>), 0)}

\* custom implementations of AsModel: one keeping both provided methods, one
\* keeping get_type only, two whose serialize() uses a reserved key
CustomInstances ==
  {VariantCell("Custom", "", Null, 0),
   VariantCell("Custom", "", Mapping(<<<<"a", "1">>>>), 0),
   VariantCell("Custom", "", Mapping(<<<<"id", "m2">>>>), 0),
   VariantCell("Custom", "Custom",
               Mapping(<<<<"b", "2">>, <<"type", "Storage">>>>), 0)}

Instances == VariantInstances \cup CustomInstances

\* hand-written configurations given to decode
Docs ==
  {<<<<"id", "m1">>, <<"type", "Generator">>, <<"a", "1">>>>,
   <<<<"type", "Processor">>, <<"b", "1">>, <<"id", "m2">>>>,
   <<<<"id", "m2">>, <<"type", "Storage">>>>,
   <<<<"id", "m1">>, <<"type", "ExclusiveGateway">>, <<"a", "2">>>>,
   <<<<"id", "m2">>, <<"type", "Processor">>, <<"b", "x">>>>,
   <<<<"id", "m1">>, <<"type", "Bogus">>>>,
   <<<<"id", "m1">>, <<"type", "generator">>, <<"a", "1">>>>,
   <<<<"id", "m2">>, <<"type", "">>>>,
   <<<<"type", "Generator">>, <<"a", "1">>>>,
   <<<<"id", "1">>, <<"type", "Storage">>>>}

\* the inputs of the specification that also runs the behavioural methods
SmallInstances ==
  {VariantCell("Generator", "Generator", Mapping(<<<<"a", "1">>>>), 0)}

SmallDocs ==
  {<<<<"id", "m1">>, <<"type", "Generator">>, <<"a", "1">>>>,
   <<<<"id", "m1">>, <<"type", "Bogus">>>>}

(* ------------------------------- state -------------------------------- *)

VARIABLES
  models,   \* the Model values the owner holds, by slot
  heap,     \* the boxes
  last      \* the last operation: its name, slot, arguments and result

vars == <<models, heap, last>>

Op(op, slot, arg, ret, calls) ==
  [op |-> op, slot |-> slot, arg |-> arg, ret |-> ret, calls |-> calls]

Live(s) == models[s].live

Init ==
  /\ models = [s \in Slots |-> NoModel]
  /\ heap = [a \in Addrs |-> FreeCell]
  /\ last = Op("init", 0, <<>>, <<>>, <<>>)

(* ------------------------------ actions ------------------------------- *)

\* Model::new(id, Box::new(value))
New(s, id, value) ==
  /\ ~Live(s)
  /\ FreeCount(heap) >= 1
  /\ LET b == Box_new(heap, value)
     IN  /\ heap' = b.heap
         /\ models' = [models EXCEPT ![s] = Model_new(id, b.addr)]
  /\ last' = Op("new", s, <<id>>, <<>>, <<>>)

\* m = Model::new(id, Box::new(m)) for a Model m the owner holds: m moves
\* into the box and the new Model takes its place
Wrap(s, id) ==
  /\ Live(s)
  /\ FreeCount(heap) >= 1
  /\ LET b == Box_new(heap, ModelCell(models[s]))
     IN  /\ heap' = b.heap
         /\ models' = [models EXCEPT ![s] = Model_new(id, b.addr)]
  /\ last' = Op("wrap", s, <<id>>, <<>>, <<>>)

\* let c = m.clone()
Clone(src, dst) ==
  /\ Live(src)
  /\ ~Live(dst)
  /\ FreeCount(heap) >= Cardinality(Owned(heap, models[src]))
  /\ LET c == Model_clone(heap, models[src])
     IN  /\ heap' = c.heap
         /\ models' = [models EXCEPT ![dst] = c.model]
  /\ last' = Op("clone", dst, <<src>>, <<>>, <<>>)

\* the owner drops a Model
Drop(s) ==
  /\ Live(s)
  /\ heap' = Model_drop(heap, models[s])
  /\ models' = [models EXCEPT ![s] = NoModel]
  /\ last' = Op("drop", s, <<>>, <<>>, <<>>)

Id(s) ==
  /\ Live(s)
  /\ last' = Op("id", s, <<>>, Model_id(models[s]), <<>>)
  /\ UNCHANGED <<models, heap>>

Status(s) ==
  /\ Live(s)
  /\ LET r == Model_status(heap, models[s])
     IN  /\ heap' = r.heap
         /\ last' = Op("status", s, <<>>, r.ret, r.calls)
  /\ UNCHANGED models

UntilNextEvent(s) ==
  /\ Live(s)
  /\ LET r == Model_until_next_event(heap, models[s])
     IN  /\ heap' = r.heap
         /\ last' = Op("until_next_event", s, <<>>, r.ret, r.calls)
  /\ UNCHANGED models

TimeAdvance(s, time_delta) ==
  /\ Live(s)
  /\ LET r == Model_time_advance(heap, models[s], time_delta)
     IN  /\ heap' = r.heap
         /\ last' = Op("time_advance", s, <<time_delta>>, r.ret, r.calls)
  /\ UNCHANGED models

EventsExt(s, uniform_rng, incoming_message) ==
  /\ Live(s)
  /\ LET r == Model_events_ext(heap, models[s], uniform_rng, incoming_message)
     IN  /\ heap' = r.heap
         /\ last' = Op("events_ext", s, <<uniform_rng, incoming_message>>,
                       [rng |-> r.rng, ret |-> r.ret], r.calls)
  /\ UNCHANGED models

EventsInt(s, uniform_rng) ==
  /\ Live(s)
  /\ LET r == Model_events_int(heap, models[s], uniform_rng)
     IN  /\ heap' = r.heap
         /\ last' = Op("events_int", s, <<uniform_rng>>,
                       [rng |-> r.rng, ret |-> r.ret], r.calls)
  /\ UNCHANGED models

\* AsModel::get_type and AsModel::serialize called on the Model itself
GetType(s) ==
  /\ Live(s)
  /\ last' = Op("get_type", s, <<>>, Model_get_type(heap, models[s]), <<>>)
  /\ UNCHANGED <<models, heap>>

AsSerialize(s) ==
  /\ Live(s)
  /\ last' = Op("as_serialize", s, <<>>,
                Model_as_serialize(heap, models[s]), <<>>)
  /\ UNCHANGED <<models, heap>>

\* encode
Serialize(s) ==
  /\ Live(s)
  /\ last' = Op("serialize", s, <<>>, Model_serialize(heap, models[s]), <<>>)
  /\ UNCHANGED <<models, heap>>

\* models[dst] = decode(doc)?, of a hand-written configuration or of what
\* encode just produced: on Ok the decoded Model takes the slot and the
\* Model it held, if any, is dropped; on Err the slot keeps what it held
Deserialize(dst, doc) ==
  /\ LET r == Model_deserialize(heap, doc)
     IN  /\ r.ok => FreeCount(heap) >= 1
         /\ heap' = IF r.ok THEN Model_drop(r.heap, models[dst]) ELSE heap
         /\ models' = IF r.ok THEN [models EXCEPT ![dst] = r.model] ELSE models
         /\ last' = Op("deserialize", dst, <<doc>>,
                       [ok |-> r.ok, err |-> r.err, arm |-> r.arm], <<>>)

Next ==
  \/ \E s \in Slots, id \in Ids, value \in SmallInstances : New(s, id, value)
  \/ \E s \in Slots, id \in Ids : Wrap(s, id)
  \/ \E src \in Slots, dst \in Slots : Clone(src, dst)
  \/ \E s \in Slots : Drop(s)
  \/ \E s \in Slots : Id(s)
  \/ \E s \in Slots : Status(s)
  \/ \E s \in Slots : UntilNextEvent(s)
  \/ \E s \in Slots, d \in Times : TimeAdvance(s, d)
  \/ \E s \in Slots, rng \in Rngs, msg \in Msgs : EventsExt(s, rng, msg)
  \/ \E s \in Slots, rng \in Rngs : EventsInt(s, rng)
  \/ \E s \in Slots : Serialize(s)
  \/ \E dst \in Slots, doc \in SmallDocs : Deserialize(dst, doc)
  \/ \E dst \in Slots :
       last.op = "serialize" /\ Deserialize(dst, last.ret)

\* the wrapper's life: construction, clone, drop, delegation, and the codec
\* on a small set of inputs
Spec == Init /\ [][Next]_vars

NextClone ==
  \/ \E s \in Slots, id \in Ids, value \in SmallInstances : New(s, id, value)
  \/ \E s \in Slots, id \in Ids : Wrap(s, id)
  \/ \E src \in Slots, dst \in Slots : Clone(src, dst)
  \/ \E s \in Slots : Drop(s)
  \/ \E s \in Slots, d \in Times : TimeAdvance(s, d)
  \/ \E s \in Slots, rng \in Rngs, msg \in Msgs : EventsExt(s, rng, msg)
  \/ \E s \in Slots, rng \in Rngs : EventsInt(s, rng)

\* construction, clone, drop and the mutating methods alone: the steps that
\* change a Model or the heap
SpecClone == Init /\ [][NextClone]_vars

NextCodec ==
  \/ \E id \in Ids, value \in Instances : New(1, id, value)
  \/ \E id \in Ids : Wrap(1, id)
  \/ Drop(1)
  \/ GetType(1)
  \/ AsSerialize(1)
  \/ Serialize(1)
  \/ \E doc \in Docs : Deserialize(1, doc)
  \/ last.op = "serialize" /\ Deserialize(1, last.ret)

\* the codec on the full set of inputs, for one Model
SpecCodec == Init /\ [][NextCodec]_vars

(* ------------------------- claims: helpers ---------------------------- *)

EmptyHeap == [a \in Addrs |-> FreeCell]

\* the document of the last decode, and its tagged representation
LastDoc == last.arg[1]
LastRepr == ModelRepr_deserialize(last.arg[1])

\* what a caller can observe of a Model
Obs(h, m) ==
  [id |-> Model_id(m),
   status |-> Model_status(h, m).ret,
   until |-> Model_until_next_event(h, m).ret,
   enc |-> Model_serialize(h, m)]

(* ------------------------------ claims -------------------------------- *)

\* C1: round trip.  For every Model held whose inner value is one of the
\* four concrete variants, decoding what encode emits for it succeeds and
\* yields a Model with the same id, the same get_type() and the same
\* serialize() (same fields, same values).
C1_RoundTrip ==
  \A s \in Slots :
    (/\ Live(s)
     /\ heap[models[s].inner].kind
          \in {"Generator", "ExclusiveGateway", "Processor", "Storage"})
    => LET m == models[s]
           d == Model_deserialize(EmptyHeap, Model_serialize(heap, m))
       IN  /\ d.ok
           /\ Model_id(d.model) = Model_id(m)
           /\ Dyn_get_type(d.heap, d.model.inner) = Dyn_get_type(heap, m.inner)
           /\ Dyn_serialize(d.heap, d.model.inner) = Dyn_serialize(heap, m.inner)

\* a two-field variant has just been decoded from what encode produced
C1_Witness ==
  /\ last.op = "deserialize"
  /\ last.ret.ok
  /\ Live(1)
  /\ heap[models[1].inner].kind = "ExclusiveGateway"
  /\ LastDoc = Model_serialize(heap, models[1])

\* C2: unknown tag.  A decode whose tagged representation carries a type
\* outside Generator, ExclusiveGateway, Processor, Storage fails with the
\* unknown-variant error naming that type and listing exactly those four
\* tags in that order, and produces no Model (slots and heap are unchanged).
C2_UnknownTag ==
  [][(/\ last'.op = "deserialize"
      /\ ModelRepr_deserialize(last'.arg[1]).ok
      /\ ModelRepr_deserialize(last'.arg[1]).model_type
           \notin {"Generator", "ExclusiveGateway", "Processor", "Storage"})
     => (/\ ~last'.ret.ok
         /\ last'.ret.err =
              [kind |-> "unknown_variant",
               tag |-> ModelRepr_deserialize(last'.arg[1]).model_type,
               expected |-> <<"Generator", "ExclusiveGateway",
                              "Processor", "Storage">>]
         /\ models' = models
         /\ heap' = heap)]_vars

\* a decode of type Bogus has just failed as an unknown variant
C2_Witness ==
  /\ last.op = "deserialize"
  /\ ~last.ret.ok
  /\ last.ret.err.kind = "unknown_variant"
  /\ last.ret.err.tag = "Bogus"

\* C3: encode layout.  For every Model held, encode emits <<id, the id>>
\* first and <<type, inner.get_type()>> second; when inner.serialize() is a
\* mapping its entries follow, unchanged and in order, at the same level;
\* otherwise the output is exactly those two entries.  The value returned by
\* an encode call is that output.
C3_EncodeLayout ==
  /\ \A s \in Slots :
       Live(s) =>
         LET m == models[s]
             enc == Model_serialize(heap, m)
             x == Dyn_serialize(heap, m.inner)
         IN  /\ Len(enc) >= 2
             /\ enc[1] = <<"id", Model_id(m)>>
             /\ enc[2] = <<"type", Dyn_get_type(heap, m.inner)>>
             /\ x.map => /\ Len(enc) = 2 + Len(x.entries)
                         /\ \A i \in 1..Len(x.entries) : enc[2 + i] = x.entries[i]
             /\ ~x.map => Len(enc) = 2
  /\ last.op = "serialize" => last.ret = Model_serialize(heap, models[last.slot])

\* an encode has just emitted two extra entries after id and type
C3_Witness ==
  /\ last.op = "serialize"
  /\ Len(last.ret) = 4
  /\ last.ret[3] = <<"a", "1">>
  /\ last.ret[4] = <<"b", "2">>

\* C4: clone independence.  A mutating call (time_advance, events_ext,
\* events_int) on one Model leaves every observation (id, status,
\* until_next_event, encode) of every other Model held unchanged, a clone
\* or its original included; and right after c = m.clone(), c and m have
\* equal observations and m's are what they were.
C4_CloneIndependence ==
  [][/\ last'.op \in {"time_advance", "events_ext", "events_int"}
        => \A s \in Slots \ {last'.slot} :
             Live(s) => /\ models'[s].live
                        /\ Obs(heap', models'[s]) = Obs(heap, models[s])
     /\ last'.op = "clone"
        => /\ Obs(heap', models'[last'.slot])
                = Obs(heap', models'[last'.arg[1]])
           /\ Obs(heap', models'[last'.arg[1]])
                = Obs(heap, models[last'.arg[1]])]_vars

\* two Models with equal id and equal encoding, one just advanced in time,
\* now differ in until_next_event
C4_Witness ==
  /\ last.op = "time_advance"
  /\ last.slot = 2
  /\ Live(1) /\ Live(2)
  /\ Model_id(models[1]) = Model_id(models[2])
  /\ Model_serialize(heap, models[1]) = Model_serialize(heap, models[2])
  /\ Model_until_next_event(heap, models[1]).ret = 1
  /\ Model_until_next_event(heap, models[2]).ret = 0

\* C5: delegation fidelity.  A call of status, until_next_event,
\* time_advance, events_ext or events_int on a Model makes exactly one call,
\* of the same method with the same arguments, on its inner box; the heap
\* afterwards is the heap after that one inner call, and the value returned
\* (a SimulationError included) and the rng state are those of the inner
\* call.
C5_Delegation ==
  [][LET a == models[last'.slot].inner
     IN  /\ last'.op \in {"status", "until_next_event", "time_advance",
                          "events_ext", "events_int"}
            => /\ Len(last'.calls) = 1
               /\ last'.calls[1].method = last'.op
               /\ last'.calls[1].on = a
               /\ last'.calls[1].args = last'.arg
               /\ models' = models
         /\ last'.op = "status"
            => /\ heap' = heap
               /\ last'.ret = Dyn_status(heap, a)
         /\ last'.op = "until_next_event"
            => /\ heap' = heap
               /\ last'.ret = Dyn_until_next_event(heap, a)
         /\ last'.op = "time_advance"
            => heap' = Dyn_time_advance(heap, a, last'.arg[1])
         /\ last'.op = "events_ext"
            => LET r == Dyn_events_ext(heap, a, last'.arg[1], last'.arg[2])
               IN  /\ heap' = r.heap
                   /\ last'.ret = [rng |-> r.rng, ret |-> r.ret]
         /\ last'.op = "events_int"
            => LET r == Dyn_events_int(heap, a, last'.arg[1])
               IN  /\ heap' = r.heap
                   /\ last'.ret = [rng |-> r.rng, ret |-> r.ret]]_vars

\* events_ext on a Model has just returned the inner value's SimulationError
C5_Witness ==
  /\ last.op = "events_ext"
  /\ last.arg[2] = "poison"
  /\ last.ret.ret = SimulationError
  /\ Len(last.calls) = 1

\* C6: id immutability.  A Model built by new has the id given to new, one
\* built by decode has the id entry of the decoded document, a clone has
\* the id of its original; and every other step, whether the call succeeds
\* or fails, leaves the id of every Model that stays held as it was.  id()
\* returns that id.
C6_IdImmutable ==
  [][\A s \in Slots :
       /\ (last'.op \in {"new", "wrap"} /\ last'.slot = s)
          => /\ models'[s].live
             /\ Model_id(models'[s]) = last'.arg[1]
       /\ (last'.op = "deserialize" /\ last'.slot = s /\ last'.ret.ok)
          => /\ models'[s].live
             /\ Model_id(models'[s]) = Lookup(last'.arg[1], "id")
       /\ (last'.op = "clone" /\ last'.slot = s)
          => /\ models'[s].live
             /\ Model_id(models'[s]) = Model_id(models[last'.arg[1]])
       /\ ~(/\ last'.slot = s
            /\ \/ last'.op \in {"new", "wrap", "clone"}
               \/ last'.op = "deserialize" /\ last'.ret.ok)
          => /\ (Live(s) /\ models'[s].live)
                => Model_id(models'[s]) = Model_id(models[s])
             /\ ~(last'.op = "drop" /\ last'.slot = s)
                => models'[s].live = Live(s)
       /\ (last'.op = "id" /\ last'.slot = s)
          => last'.ret = Model_id(models[s])]_vars

\* id() has just returned m2 for a Model whose events_int would fail, while
\* another Model with id m1 is held
C6_Witness ==
  /\ last.op = "id"
  /\ last.ret = "m2"
  /\ Live(1) /\ Live(2)
  /\ \E t \in Slots \ {last.slot} : Model_id(models[t]) = "m1"
  /\ Model_until_next_event(heap, models[last.slot]).ret = 1

\* C7: decode error for a known tag.  A decode whose tagged representation
\* carries one of the four known tags, with extra fields its variant cannot be
\* decoded from, takes that tag's arm and no other, fails with a decode
\* error (not an unknown-variant error), and produces no Model.
C7_KnownTagDecodeError ==
  [][LET repr == ModelRepr_deserialize(last'.arg[1])
     IN  (/\ last'.op = "deserialize"
          /\ repr.ok
          /\ repr.model_type
               \in {"Generator", "ExclusiveGateway", "Processor", "Storage"}
          /\ ~from_value(repr.model_type, repr.extra).ok)
         => (/\ ~last'.ret.ok
             /\ last'.ret.arm = repr.model_type
             /\ last'.ret.err.kind = "decode"
             /\ models' = models
             /\ heap' = heap)]_vars

\* a Processor whose field b is mistyped, and an ExclusiveGateway without
\* its field b, are among the inputs; one has just been refused
C7_Witness ==
  /\ last.op = "deserialize"
  /\ LastRepr.ok
  /\ LastRepr.model_type = "Processor"
  /\ HasKey(LastRepr.extra, "b")
  /\ ~last.ret.ok

\* C8: reserved-key collision.  When inner.serialize() is a mapping with an
\* entry keyed id or type, encode still emits its own id and type entries
\* first and then every entry of the mapping unchanged, so that key occurs
\* once more in the output than in the mapping.
C8_CollisionUnguarded ==
  \A s \in Slots : \A k \in {"id", "type"} :
    LET m == models[s]
        x == Dyn_serialize(heap, m.inner)
        enc == Model_serialize(heap, m)
    IN  (Live(s) /\ x.map /\ HasKey(x.entries, k))
        => /\ Key(enc[1]) = "id" /\ Val(enc[1]) = Model_id(m)
           /\ Key(enc[2]) = "type"
           /\ SubSeq(enc, 3, Len(enc)) = x.entries
           /\ CountKey(enc, k) = 1 + CountKey(x.entries, k)
           /\ CountKey(enc, k) >= 2

\* an encode has just emitted the key id twice
C8_Witness ==
  /\ last.op = "serialize"
  /\ CountKey(last.ret, "id") = 2
  /\ Live(last.slot)
  /\ HasKey(Dyn_serialize(heap, models[last.slot].inner).entries, "id")

\* C9: registry and diagnostic list agree.  A decode that reaches the match
\* takes a variant's arm exactly when the type is an element of VARIANTS, and
\* then the arm of that very tag; it reports an unknown variant exactly when
\* it takes no arm.  Every element of VARIANTS, probed on its own, reaches
\* its arm, no element is listed twice, and the tags outside the list (the
\* empty one and wrong-case ones included) reach none.
C9_RegistryAgrees ==
  LET Listed(t) == \E i \in DOMAIN VARIANTS : VARIANTS[i] = t
      Probe(t) == Model_deserialize(EmptyHeap, <<<<"id", "m1">>, <<"type", t>>>>)
  IN  /\ (last.op = "deserialize" /\ LastRepr.ok)
         => /\ (last.ret.arm # "other") <=> Listed(LastRepr.model_type)
            /\ (last.ret.arm # "other") => last.ret.arm = LastRepr.model_type
            /\ (last.ret.arm = "other") <=> (last.ret.err.kind = "unknown_variant")
      /\ \A i \in DOMAIN VARIANTS : Probe(VARIANTS[i]).arm = VARIANTS[i]
      /\ \A i, j \in DOMAIN VARIANTS : VARIANTS[i] = VARIANTS[j] => i = j
      /\ \A t \in {"Generator", "ExclusiveGateway", "Processor", "Storage",
                   "", "generator", "STORAGE", "Bogus", "Model", "Custom"} :
           ~Listed(t) => /\ Probe(t).arm = "other"
                         /\ Probe(t).err.kind = "unknown_variant"

\* a decode of type Storage has just been dispatched and has succeeded
C9_Witness ==
  /\ last.op = "deserialize"
  /\ LastRepr.ok
  /\ LastRepr.model_type = "Storage"
  /\ last.ret.arm = "Storage"
  /\ last.ret.ok

=============================================================================
